---- MODULE Spec2Model ----
(***************************************************************************)
(* Adaptive strategy performance and weight control                        *)
(* (src/python/auto_strategy_manager.py).                                  *)
(*                                                                         *)
(* Python floats are modelled as exact fractions <<n, d>> in lowest terms  *)
(* with d > 0.  Optional values are sequences of length 0 (None) or 1.     *)
(***************************************************************************)
EXTENDS Integers, Sequences, FiniteSets, TLC

VARIABLES
    manager,               \* "up": an AdaptiveStrategyManager exists; "failed": __init__ raised
    config,                \* self.config, the live configuration dict
    config_file,           \* the configuration file on disk: None (unreadable) or Some(dict)
    db,                    \* the sqlite store: predictions rows, strategy_performance rows
    strategy_performance,  \* self.strategy_performance, an insertion-ordered dict
    clock,                 \* datetime.now()
    held,                  \* the PredictionResult object the caller last passed in
    last,                  \* history: what the last operation was and how it ended
    prev,                  \* history: in-memory and durable state before the last operation
    threads                \* concurrent callers of record_prediction: pc and locals

vars == <<manager, config, config_file, db, strategy_performance, clock, held,
          last, prev, threads>>

----------------------------------------------------------------------------
(* Bounds of the model *)

MaxCalls == 3          \* calls of record_prediction in a run

----------------------------------------------------------------------------
(* Fractions *)

RECURSIVE GCD(_, _)
GCD(a, b) == IF b = 0 THEN a ELSE GCD(b, a % b)

Abs(x) == IF x < 0 THEN -x ELSE x

R(n, d) ==
    IF n = 0 THEN <<0, 1>>
    ELSE LET g == GCD(Abs(n), d) IN <<n \div g, d \div g>>

RAdd(a, b) == R(a[1] * b[2] + b[1] * a[2], a[2] * b[2])
RSub(a, b) == R(a[1] * b[2] - b[1] * a[2], a[2] * b[2])
RMul(a, b) == R(a[1] * b[1], a[2] * b[2])
RLt(a, b) == a[1] * b[2] < b[1] * a[2]
RLe(a, b) == a[1] * b[2] <= b[1] * a[2]
\* Python's max(a, b) and min(a, b): the first argument unless the second beats it
RMax(a, b) == IF RLt(a, b) THEN b ELSE a
RMin(a, b) == IF RLt(b, a) THEN b ELSE a

RInt(k) == <<k, 1>>
RZero == <<0, 1>>
ROne == <<1, 1>>

----------------------------------------------------------------------------
(* Optional values *)

None == <<>>
Some(x) == <<x>>
\* Python truthiness of an Optional[bool]: None and False are falsy
Truthy(o) == o = Some(TRUE)

ToSet(s) == {s[i] : i \in DOMAIN s}

----------------------------------------------------------------------------
(* Literals of the source *)

hit_threshold == 3
window_size == 10
PenaltyFactor == R(1, 10)
BonusMargin == R(1, 10)
DefaultWeight == R(1, 5)

----------------------------------------------------------------------------
(* Configuration documents.  STRATEGY_CONFIG.json is an input of the program:
   these are the documents the model loads, with the keys the code reads. *)

Strategy(key, name, enabled, weight) ==
    [key |-> key, name |-> name, enabled |-> enabled, weight |-> weight]

ConfigDoc(minAcc, maxDrop, window, threshold, below, above, strategies) ==
    [adaptive_mechanism |->
        [performance_thresholds |->
            [minimum_accuracy |-> minAcc,
             maximum_weight_drop |-> maxDrop,
             weight_adjustment_factor |-> R(1, 10),
             evaluation_window |-> window],
         weight_adjustment_rules |->
            [consecutive_failures |-> [threshold |-> threshold],
             performance_below_threshold |-> below,
             performance_above_threshold |-> above]],
     prediction_strategies |-> strategies]

StrategiesDoc ==
    << Strategy("s1", "A", TRUE, R(1, 5)),
       Strategy("s2", "B", TRUE, R(2, 5)),
       Strategy("s3", "D", FALSE, R(1, 5)) >>

\* gentle decay, failure threshold 3
ConfigGentle ==
    ConfigDoc(R(1, 2), R(1, 2), 20, 3,
              [factor |-> R(4, 5), min_weight |-> R(1, 20)],
              [factor |-> R(6, 5), max_weight |-> R(1, 2)],
              StrategiesDoc)

\* steep decay (the drop limit bites), failure threshold 2
ConfigSteep ==
    ConfigDoc(R(3, 10), R(1, 2), 20, 2,
              [factor |-> R(1, 10), min_weight |-> R(1, 20)],
              [factor |-> R(3, 2), max_weight |-> R(1, 2)],
              StrategiesDoc)

Configs == {ConfigGentle, ConfigSteep}

Thresholds(cfg) == cfg.adaptive_mechanism.performance_thresholds
min_accuracy_threshold(cfg) == Thresholds(cfg).minimum_accuracy
max_weight_drop(cfg) == Thresholds(cfg).maximum_weight_drop
evaluation_window(cfg) == Thresholds(cfg).evaluation_window
adjustment_rules(cfg) == cfg.adaptive_mechanism.weight_adjustment_rules

----------------------------------------------------------------------------
(* PredictionResult *)

PredictionResult(name, date, predicted, actual, score, interval) ==
    [strategy_name |-> name,
     prediction_date |-> date,
     predicted_numbers |-> predicted,
     actual_numbers |-> actual,
     probability_score |-> score,
     confidence_interval |-> interval,
     is_correct |-> None]

validate_prediction(p, actual) ==
    IF p.actual_numbers = None
    THEN [p EXCEPT
            !.actual_numbers = Some(actual),
            !.is_correct = Some(Cardinality(ToSet(p.predicted_numbers)
                                            \cap ToSet(actual)) >= hit_threshold)]
    ELSE p

----------------------------------------------------------------------------
(* StrategyPerformance *)

FreshPerformance(name, now, weight) ==
    [strategy_name |-> name,
     total_predictions |-> 0,
     correct_predictions |-> 0,
     accuracy |-> RZero,
     average_confidence |-> RZero,
     last_updated |-> now,
     recent_accuracy_trend |-> <<>>,
     consecutive_failures |-> 0,
     weight |-> weight]

\* the rate taken with integer division
update_accuracy_floor_division(perf) ==
    IF perf.total_predictions > 0
    THEN [perf EXCEPT !.accuracy =
            RInt(perf.correct_predictions \div perf.total_predictions)]
    ELSE perf

update_accuracy(perf) ==
    IF perf.total_predictions > 0
    THEN [perf EXCEPT !.accuracy = R(perf.correct_predictions, perf.total_predictions)]
    ELSE perf

\* the trend appended to and never popped
update_trend_unbounded(perf, new_accuracy, size) ==
    [perf EXCEPT !.recent_accuracy_trend = Append(@, new_accuracy)]

update_trend(perf, new_accuracy, size) ==
    LET appended == Append(perf.recent_accuracy_trend, new_accuracy)
    IN  [perf EXCEPT !.recent_accuracy_trend =
            IF Len(appended) > size THEN Tail(appended) ELSE appended]

----------------------------------------------------------------------------
(* DatabaseManager: the sqlite store *)

\* text encodings of the columns; the decoders below invert them
isoformat(t) == [iso |-> t]
fromisoformat(s) == s.iso
json_dumps(x) == [json |-> x]
json_loads(s) == s.json

EmptyStore == [created |-> FALSE, predictions |-> <<>>, strategy_performance |-> {}]

\* the two tables dropped and created anew at every start
initialize_database_recreating(store) ==
    [created |-> TRUE, predictions |-> <<>>, strategy_performance |-> {}]

\* CREATE TABLE IF NOT EXISTS, twice
initialize_database(store) ==
    IF store.created THEN store
    ELSE [created |-> TRUE, predictions |-> <<>>, strategy_performance |-> {}]

PredictionRow(id, p) ==
    [id |-> id,
     strategy_name |-> p.strategy_name,
     prediction_date |-> isoformat(p.prediction_date),
     predicted_numbers |-> json_dumps(p.predicted_numbers),
     actual_numbers |->
        IF p.actual_numbers # None /\ Len(p.actual_numbers[1]) > 0
        THEN Some(json_dumps(p.actual_numbers[1])) ELSE None,
     probability_score |-> p.probability_score,
     confidence_interval |-> json_dumps(p.confidence_interval),
     is_correct |->
        IF p.is_correct # None
        THEN Some(IF p.is_correct[1] THEN 1 ELSE 0) ELSE None]

\* INSERT INTO predictions, id INTEGER PRIMARY KEY AUTOINCREMENT
save_prediction(store, p) ==
    [store EXCEPT !.predictions =
        Append(store.predictions, PredictionRow(Len(store.predictions) + 1, p))]

PerformanceRow(perf) ==
    [strategy_name |-> perf.strategy_name,
     total_predictions |-> perf.total_predictions,
     correct_predictions |-> perf.correct_predictions,
     accuracy |-> perf.accuracy,
     average_confidence |-> perf.average_confidence,
     last_updated |-> isoformat(perf.last_updated),
     recent_accuracy_trend |-> Some(json_dumps(perf.recent_accuracy_trend)),
     consecutive_failures |-> perf.consecutive_failures,
     weight |-> perf.weight]

\* a plain INSERT into a table without the primary key
update_strategy_performance_insert(store, perf) ==
    [store EXCEPT !.strategy_performance = @ \cup {PerformanceRow(perf)}]

\* INSERT OR REPLACE INTO strategy_performance, strategy_name TEXT PRIMARY KEY
update_strategy_performance(store, perf) ==
    [store EXCEPT !.strategy_performance =
        {r \in store.strategy_performance : r.strategy_name # perf.strategy_name}
            \cup {PerformanceRow(perf)}]

\* SELECT * FROM strategy_performance WHERE strategy_name = ?, fetchone
get_strategy_performance(store, name) ==
    LET rows == {r \in store.strategy_performance : r.strategy_name = name}
    IN  IF rows = {} THEN None
        ELSE LET row == CHOOSE r \in rows : TRUE
             IN  Some([strategy_name |-> row.strategy_name,
                       total_predictions |-> row.total_predictions,
                       correct_predictions |-> row.correct_predictions,
                       accuracy |-> row.accuracy,
                       average_confidence |-> row.average_confidence,
                       last_updated |-> fromisoformat(row.last_updated),
                       recent_accuracy_trend |->
                            IF row.recent_accuracy_trend # None
                            THEN json_loads(row.recent_accuracy_trend[1]) ELSE <<>>,
                       consecutive_failures |-> row.consecutive_failures,
                       weight |-> row.weight])

----------------------------------------------------------------------------
(* AdaptiveStrategyManager: the registry *)

\* position of name in the insertion-ordered dict, 0 when absent
IndexOf(registry, name) ==
    IF \E i \in DOMAIN registry : registry[i].strategy_name = name
    THEN CHOOSE i \in DOMAIN registry : registry[i].strategy_name = name
    ELSE 0

\* self.strategy_performance[name] for a name that is tracked
PerfOfName(registry, name) == registry[IndexOf(registry, name)]

RegistryNames(registry) == {registry[i].strategy_name : i \in DOMAIN registry}

RECURSIVE InitializeFrom(_, _, _, _)
InitializeFrom(strategies, store, now, registry) ==
    IF strategies = <<>> THEN registry
    ELSE LET sc == Head(strategies)
             loaded == get_strategy_performance(store, sc.name)
             performance == IF loaded = None
                            THEN FreshPerformance(sc.name, now, sc.weight)
                            ELSE loaded[1]
             i == IndexOf(registry, sc.name)
             next == IF ~sc.enabled THEN registry
                     ELSE IF i = 0 THEN Append(registry, performance)
                     ELSE [registry EXCEPT ![i] = performance]
         IN  InitializeFrom(Tail(strategies), store, now, next)

\* the registry built for every declared strategy, enabled or not
initialize_strategy_performance_all_declared(cfg, store, now) ==
    InitializeFrom([k \in DOMAIN cfg.prediction_strategies |->
                        [cfg.prediction_strategies[k] EXCEPT !.enabled = TRUE]],
                   store, now, <<>>)

\* the registry built from the configuration alone
initialize_strategy_performance_from_config(cfg, store, now) ==
    InitializeFrom(cfg.prediction_strategies, EmptyStore, now, <<>>)

initialize_strategy_performance(cfg, store, now) ==
    InitializeFrom(cfg.prediction_strategies, store, now, <<>>)

get_current_strategy_weights(registry) ==
    [name \in RegistryNames(registry) |-> registry[IndexOf(registry, name)].weight]

----------------------------------------------------------------------------
(* AdaptiveStrategyManager: the weight control policy.
   m is the manager with its files:
   [config, config_file, db, strategy_performance, log]. *)

Logged(m, line) == [m EXCEPT !.log = Append(@, line)]

\* the weight written into the entry of every strategy
SetFirstWeight_every(strategies, name, weight) ==
    [k \in DOMAIN strategies |-> [strategies[k] EXCEPT !.weight = weight]]

RECURSIVE SetFirstWeight(_, _, _)
SetFirstWeight(strategies, name, weight) ==
    IF strategies = <<>> THEN <<>>
    ELSE IF Head(strategies).name = name
    THEN <<[Head(strategies) EXCEPT !.weight = weight]>> \o Tail(strategies)
    ELSE <<Head(strategies)>> \o SetFirstWeight(Tail(strategies), name, weight)

\* the configuration file after json.dump under the write's outcome:
\* "ok", "unchanged" (open failed), "truncated" (the dump failed part-way)
WriteConfigFile(file, cfg, write) ==
    IF write = "ok" THEN Some(cfg)
    ELSE IF write = "truncated" THEN None
    ELSE file

\* the live configuration changed only once the file has been written
update_strategy_weight_in_config_file_first(m, name, new_weight, write) ==
    IF write = "ok"
    THEN LET cfg == [m.config EXCEPT !.prediction_strategies =
                        SetFirstWeight(m.config.prediction_strategies, name, new_weight)]
         IN  [m EXCEPT !.config = cfg, !.config_file = Some(cfg)]
    ELSE Logged([m EXCEPT !.config_file = WriteConfigFile(m.config_file, m.config, write)],
                "error: config save failed")

update_strategy_weight_in_config(m, name, new_weight, write) ==
    LET cfg == [m.config EXCEPT !.prediction_strategies =
                    SetFirstWeight(m.config.prediction_strategies, name, new_weight)]
        m1 == [m EXCEPT !.config = cfg,
                        !.config_file = WriteConfigFile(m.config_file, cfg, write)]
    IN  IF write = "ok" THEN m1 ELSE Logged(m1, "error: config save failed")

handle_consecutive_failures(m, i, write) ==
    LET performance == m.strategy_performance[i]
        new_weight == RMul(performance.weight, PenaltyFactor)
        m1 == [m EXCEPT !.strategy_performance[i].weight = new_weight]
    IN  Logged(update_strategy_weight_in_config(
                    Logged(m1, "warning: consecutive failures"),
                    performance.strategy_name, new_weight, write),
               "info: weight lowered temporarily")

\* the decay floored at min_weight, without the limit on the drop
LowPerformanceWeight_unclamped(old_weight, rule, drop) ==
    RMax(RMul(old_weight, rule.factor), rule.min_weight)

LowPerformanceWeight(old_weight, rule, drop) ==
    LET new_weight == RMax(RMul(old_weight, rule.factor), rule.min_weight)
    IN  IF RLt(RMul(old_weight, drop), RSub(old_weight, new_weight))
        THEN RMul(old_weight, RSub(ROne, drop))
        ELSE new_weight

handle_low_performance(m, i, rule, write) ==
    LET performance == m.strategy_performance[i]
        new_weight == LowPerformanceWeight(performance.weight, rule,
                                           max_weight_drop(m.config))
        m1 == [m EXCEPT !.strategy_performance[i].weight = new_weight]
    IN  Logged(update_strategy_weight_in_config(m1, performance.strategy_name,
                                                new_weight, write),
               "info: below threshold, weight adjusted")

HighPerformanceWeight(old_weight, rule) ==
    RMin(RMul(old_weight, rule.factor), rule.max_weight)

handle_high_performance(m, i, rule, write) ==
    LET performance == m.strategy_performance[i]
        new_weight == HighPerformanceWeight(performance.weight, rule)
        m1 == [m EXCEPT !.strategy_performance[i].weight = new_weight]
    IN  Logged(update_strategy_weight_in_config(m1, performance.strategy_name,
                                                new_weight, write),
               "info: above threshold, weight raised")

\* the rules without the early return: the penalty stacks with an accuracy rule
evaluate_strategy_adjustment_stacking(m, i, write) ==
    LET rules == adjustment_rules(m.config)
        minimum == min_accuracy_threshold(m.config)
        m1 == IF m.strategy_performance[i].consecutive_failures
                    >= rules.consecutive_failures.threshold
              THEN handle_consecutive_failures(m, i, write)
              ELSE m
    IN  IF RLt(m1.strategy_performance[i].accuracy, minimum)
        THEN handle_low_performance(m1, i, rules.performance_below_threshold, write)
        ELSE IF RLt(RAdd(minimum, BonusMargin), m1.strategy_performance[i].accuracy)
        THEN handle_high_performance(m1, i, rules.performance_above_threshold, write)
        ELSE m1

evaluate_strategy_adjustment(m, i, write) ==
    LET performance == m.strategy_performance[i]
        rules == adjustment_rules(m.config)
        minimum == min_accuracy_threshold(m.config)
    IN  IF performance.consecutive_failures >= rules.consecutive_failures.threshold
        THEN handle_consecutive_failures(m, i, write)
        ELSE IF RLt(performance.accuracy, minimum)
        THEN handle_low_performance(m, i, rules.performance_below_threshold, write)
        ELSE IF RLt(RAdd(minimum, BonusMargin), performance.accuracy)
        THEN handle_high_performance(m, i, rules.performance_above_threshold, write)
        ELSE m

----------------------------------------------------------------------------
(* AdaptiveStrategyManager: recording an outcome *)

\* the statistics update that leaves consecutive_failures standing on a correct outcome
UpdateStatisticsFrom_no_reset(performance, loaded_total, p, now) ==
    LET total == loaded_total + 1
        counted == IF Truthy(p.is_correct)
                   THEN [performance EXCEPT
                            !.total_predictions = total,
                            !.correct_predictions = @ + 1]
                   ELSE [performance EXCEPT
                            !.total_predictions = total,
                            !.consecutive_failures = @ + 1]
        rated == update_accuracy(counted)
        averaged == [rated EXCEPT !.average_confidence =
                        RMul(RAdd(RMul(rated.average_confidence, RInt(total - 1)),
                                  p.probability_score),
                             R(1, total))]
        trended == update_trend(averaged, IF Truthy(p.is_correct) THEN 1 ELSE 0,
                                window_size)
    IN  [trended EXCEPT !.last_updated = now]

\* lines 271-291 on the record, with total_predictions read as loaded_total
UpdateStatisticsFrom(performance, loaded_total, p, now) ==
    LET total == loaded_total + 1
        counted == IF Truthy(p.is_correct)
                   THEN [performance EXCEPT
                            !.total_predictions = total,
                            !.correct_predictions = @ + 1,
                            !.consecutive_failures = 0]
                   ELSE [performance EXCEPT
                            !.total_predictions = total,
                            !.consecutive_failures = @ + 1]
        rated == update_accuracy(counted)
        averaged == [rated EXCEPT !.average_confidence =
                        RMul(RAdd(RMul(rated.average_confidence, RInt(total - 1)),
                                  p.probability_score),
                             R(1, total))]
        trended == update_trend(averaged, IF Truthy(p.is_correct) THEN 1 ELSE 0,
                                window_size)
    IN  [trended EXCEPT !.last_updated = now]

UpdateStatistics(performance, p, now) ==
    UpdateStatisticsFrom(performance, performance.total_predictions, p, now)

\* what a call returns to its caller: the manager after it, the prediction object
\* after it, and the exception that left it ("none" when it returned)
Returned(m, p, raised) == [m |-> m, p |-> p, raised |-> raised]

\* a strategy that is not tracked given a fresh record on its first outcome
manager_update_strategy_performance_registering(m, p, now, fault, write) ==
    LET known == IndexOf(m.strategy_performance, p.strategy_name) # 0
        m0 == IF known THEN m
              ELSE [m EXCEPT !.strategy_performance =
                        Append(@, FreshPerformance(p.strategy_name, now, DefaultWeight))]
        i == IndexOf(m0.strategy_performance, p.strategy_name)
        m1 == [m0 EXCEPT !.strategy_performance[i] = UpdateStatistics(@, p, now)]
    IN  IF fault = "upsert"
        THEN Returned(m1, p, "sqlite3.Error")
        ELSE IF known
        THEN Returned(
                evaluate_strategy_adjustment(
                    [m1 EXCEPT !.db = update_strategy_performance(
                                        @, m1.strategy_performance[i])],
                    i, write),
                p, "none")
        ELSE Returned([m1 EXCEPT !.db = update_strategy_performance(
                                            @, m1.strategy_performance[i])],
                      p, "none")

\* an outcome whose flag is unset left out of the statistics
manager_update_strategy_performance_resolved_only(m, p, now, fault, write) ==
    LET i == IndexOf(m.strategy_performance, p.strategy_name)
    IN  IF i = 0
        THEN Returned(Logged(m, "warning: unknown strategy"), p, "none")
        ELSE IF p.is_correct = None
        THEN Returned(m, p, "none")
        ELSE LET m1 == [m EXCEPT !.strategy_performance[i] = UpdateStatistics(@, p, now)]
             IN  IF fault = "upsert"
                 THEN Returned(m1, p, "sqlite3.Error")
                 ELSE Returned(
                        evaluate_strategy_adjustment(
                            [m1 EXCEPT !.db = update_strategy_performance(
                                                @, m1.strategy_performance[i])],
                            i, write),
                        p, "none")

\* the failure of the upsert caught and logged, the call going on to the policy
manager_update_strategy_performance_absorbing(m, p, now, fault, write) ==
    LET i == IndexOf(m.strategy_performance, p.strategy_name)
    IN  IF i = 0
        THEN Returned(Logged(m, "warning: unknown strategy"), p, "none")
        ELSE LET m1 == [m EXCEPT !.strategy_performance[i] = UpdateStatistics(@, p, now)]
                 m2 == IF fault = "upsert"
                       THEN Logged(m1, "error: upsert failed")
                       ELSE [m1 EXCEPT !.db = update_strategy_performance(
                                                @, m1.strategy_performance[i])]
             IN  Returned(evaluate_strategy_adjustment(m2, i, write), p, "none")

\* _update_strategy_performance; fault "upsert": the store raises on the upsert
manager_update_strategy_performance(m, p, now, fault, write) ==
    LET i == IndexOf(m.strategy_performance, p.strategy_name)
    IN  IF i = 0
        THEN Returned(Logged(m, "warning: unknown strategy"), p, "none")
        ELSE LET m1 == [m EXCEPT !.strategy_performance[i] = UpdateStatistics(@, p, now)]
             IN  IF fault = "upsert"
                 THEN Returned(m1, p, "sqlite3.Error")
                 ELSE Returned(
                        evaluate_strategy_adjustment(
                            [m1 EXCEPT !.db = update_strategy_performance(
                                                @, m1.strategy_performance[i])],
                            i, write),
                        p, "none")

\* lines 250-251
ResolveOnRecord(p) ==
    IF p.actual_numbers # None
    THEN validate_prediction(p, p.actual_numbers[1])
    ELSE p

\* the registry looked up before the outcome is saved
record_prediction_lookup_first(m, prediction, now, fault, write) ==
    LET p == ResolveOnRecord(prediction)
    IN  IF IndexOf(m.strategy_performance, p.strategy_name) = 0
        THEN Returned(Logged(m, "warning: unknown strategy"), p, "none")
        ELSE IF fault = "save"
        THEN Returned(m, p, "sqlite3.Error")
        ELSE LET u == manager_update_strategy_performance(
                        [m EXCEPT !.db = save_prediction(@, p)], p, now, fault, write)
             IN  IF u.raised = "none"
                 THEN Returned(Logged(u.m, "info: prediction recorded"), p, "none")
                 ELSE u

\* record_prediction; fault "save": the store raises on the outcome insert
record_prediction(m, prediction, now, fault, write) ==
    LET p == ResolveOnRecord(prediction)
    IN  IF fault = "save"
        THEN Returned(m, p, "sqlite3.Error")
        ELSE LET u == manager_update_strategy_performance(
                        [m EXCEPT !.db = save_prediction(@, p)], p, now, fault, write)
             IN  IF u.raised = "none"
                 THEN Returned(Logged(u.m, "info: prediction recorded"), p, "none")
                 ELSE u

\* a dict without keys
EmptyDict == [k \in {} |-> None]

\* _load_config: the parsed document, or {} when the file is absent or is not JSON
load_config(file) == IF file = None THEN EmptyDict ELSE file[1]

ThresholdKeys ==
    {"minimum_accuracy", "maximum_weight_drop", "weight_adjustment_factor",
     "evaluation_window"}

\* lines 202-205 find every key they subscript
HasThresholds(cfg) ==
    /\ "adaptive_mechanism" \in DOMAIN cfg
    /\ "performance_thresholds" \in DOMAIN cfg.adaptive_mechanism
    /\ ThresholdKeys \subseteq DOMAIN cfg.adaptive_mechanism.performance_thresholds

\* a manager is produced although the thresholds cannot be read
Construct_without_thresholds(file, store, now, old_config) ==
    [manager |-> "up", config |-> load_config(file), db |-> initialize_database(store),
     strategy_performance |-> <<>>]

\* __init__: _load_config, DatabaseManager(), _initialize_strategy_performance, then the
\* thresholds are read: a KeyError when a key is missing, as in the empty dict of an
\* unreadable file, and no manager is produced
Construct(file, store, now, old_config) ==
    LET store1 == initialize_database(store)
        cfg == load_config(file)
    IN  IF ~HasThresholds(cfg)
        THEN [manager |-> "failed", config |-> old_config, db |-> store1,
              strategy_performance |-> <<>>]
        ELSE [manager |-> "up", config |-> cfg, db |-> store1,
              strategy_performance |-> initialize_strategy_performance(cfg, store1, now)]

----------------------------------------------------------------------------
(* AdaptiveStrategyManager: choosing a strategy *)

min_sample == 10
SwitchMargin == R(1, 20)

\* the floor without the half of the evaluation window
min_predictions_fixed(cfg) == min_sample

\* line 459: max(10, self.evaluation_window // 2), an integer floor division
min_predictions(cfg) ==
    IF min_sample >= evaluation_window(cfg) \div 2
    THEN min_sample
    ELSE evaluation_window(cfg) \div 2

\* max(items, key=accuracy): the first item is kept until a later one is greater
RECURSIVE MaxByAccuracy(_, _)
MaxByAccuracy(items, best) ==
    IF items = <<>>
    THEN best
    ELSE MaxByAccuracy(Tail(items),
                       IF RLt(best.accuracy, Head(items).accuracy)
                       THEN Head(items)
                       ELSE best)

Qualifies(perf, cfg) == perf.total_predictions >= min_predictions(cfg)

\* get_best_performing_strategy: None, or the name of the strategy returned
get_best_performing_strategy(registry, cfg) ==
    IF registry = <<>>
    THEN None
    ELSE LET qualified_strategies == SelectSeq(registry, LAMBDA perf : Qualifies(perf, cfg))
         IN  IF qualified_strategies = <<>>
             THEN None
             ELSE Some(MaxByAccuracy(Tail(qualified_strategies),
                                     Head(qualified_strategies)).strategy_name)

\* the comparison with the best strategy without the 0.05 margin
should_switch_strategy_no_margin(registry, cfg, current_strategy) ==
    LET i == IndexOf(registry, current_strategy)
        best_strategy == get_best_performing_strategy(registry, cfg)
    IN  IF i = 0
        THEN TRUE
        ELSE IF RLt(registry[i].accuracy, min_accuracy_threshold(cfg))
        THEN TRUE
        ELSE IF best_strategy # None /\ best_strategy # Some("")
                /\ best_strategy # Some(current_strategy)
        THEN RLt(registry[i].accuracy, PerfOfName(registry, best_strategy[1]).accuracy)
        ELSE FALSE

\* should_switch_strategy
should_switch_strategy(registry, cfg, current_strategy) ==
    LET i == IndexOf(registry, current_strategy)
        best_strategy == get_best_performing_strategy(registry, cfg)
    IN  IF i = 0
        THEN TRUE
        ELSE IF RLt(registry[i].accuracy, min_accuracy_threshold(cfg))
        THEN TRUE
        ELSE IF best_strategy # None /\ best_strategy # Some("")
                /\ best_strategy # Some(current_strategy)
        THEN RLt(RAdd(registry[i].accuracy, SwitchMargin),
                 PerfOfName(registry, best_strategy[1]).accuracy)
        ELSE FALSE

----------------------------------------------------------------------------
(* Inputs: the PredictionResult objects callers pass in *)

PredictedLists == {<<1, 2, 3>>}
HitList == <<1, 2, 3>>
MissList == <<1, 2, 4>>
Scores == {R(3, 4)}
Intervals == {<<R(13, 20), R(17, 20)>>}

\* as constructed by the pipeline: unresolved, or carrying the actual values
Constructed(names, actuals, now) ==
    {PredictionResult(n, now, pn, an, sc, iv) :
        n \in names, pn \in PredictedLists, an \in actuals,
        sc \in Scores, iv \in Intervals}

\* resolved by the caller through validate_prediction before being recorded
Validated(names, actuals, now) ==
    {validate_prediction(p, a) : p \in Constructed(names, {None}, now), a \in actuals}

PredictionInputs(now) ==
    Constructed({"A"}, {None, Some(HitList)}, now)
        \cup Constructed({"U"}, {Some(HitList)}, now)
        \cup Validated({"A", "B"}, {HitList, MissList}, now)

\* the calls on which the store or the configuration file fails
ProbeInputs(now) == Validated({"A"}, {HitList, MissList}, now)

Call(prediction, fault, write) ==
    [prediction |-> prediction, fault |-> fault, write |-> write]

CallInputs(now) ==
    {Call(p, "none", "ok") : p \in PredictionInputs(now)}
        \cup {Call(p, f, "ok") : p \in ProbeInputs(now), f \in {"save", "upsert"}}
        \cup {Call(p, "none", w) : p \in ProbeInputs(now), w \in {"unchanged", "truncated"}}

----------------------------------------------------------------------------
(* The state machine: one caller *)

Snapshot ==
    [strategy_performance |-> strategy_performance, db |-> db,
     config |-> config, config_file |-> config_file, log |-> <<>>]

NoThreads == <<>>

LastOp(op, given, again, fault, raised, log) ==
    [op |-> op, given |-> given, again |-> again, fault |-> fault,
     raised |-> raised, log |-> log]

\* a document whose adaptive_mechanism holds no performance_thresholds
ConfigNoThresholds ==
    [adaptive_mechanism |-> [weight_adjustment_rules |-> adjustment_rules(ConfigGentle)],
     prediction_strategies |-> StrategiesDoc]

\* the configuration file found at the first start: a document, or none that parses
StartupFiles == {Some(cfg) : cfg \in Configs} \cup {Some(ConfigNoThresholds), None}

Init ==
    \E file \in StartupFiles :
        LET c == Construct(file, EmptyStore, 0, load_config(file))
        IN  /\ manager = c.manager
            /\ config = c.config
            /\ config_file = file
            /\ db = c.db
            /\ strategy_performance = c.strategy_performance
            /\ clock = 0
            /\ held = None
            /\ last = LastOp("init", None, FALSE, "none",
                             IF c.manager = "failed" THEN "KeyError" ELSE "none", <<>>)
            /\ prev = [strategy_performance |-> c.strategy_performance, db |-> c.db,
                       config |-> c.config, config_file |-> file, log |-> <<>>]
            /\ threads = NoThreads

Record(prediction, again, fault, write) ==
    /\ manager = "up"
    /\ clock < MaxCalls
    /\ LET r == record_prediction(Snapshot, prediction, clock + 1, fault, write)
       IN  /\ config' = r.m.config
           /\ config_file' = r.m.config_file
           /\ db' = r.m.db
           /\ strategy_performance' = r.m.strategy_performance
           /\ held' = Some(r.p)
           /\ last' = LastOp("record", Some(prediction), again, fault, r.raised, r.m.log)
    /\ clock' = clock + 1
    /\ prev' = Snapshot
    /\ UNCHANGED <<manager, threads>>

\* a caller records a new PredictionResult object
RecordNew ==
    \E c \in CallInputs(clock) : Record(c.prediction, FALSE, c.fault, c.write)

\* a caller passes the object it has just recorded once more
RecordAgain ==
    /\ held # None
    /\ last.op = "record" /\ last.raised = "none"
    /\ Record(held[1], TRUE, "none", "ok")

\* the process restarts: a new manager is constructed over the same files
Restart ==
    /\ LET c == Construct(config_file, db, clock, config)
       IN  /\ manager' = c.manager
           /\ config' = c.config
           /\ db' = c.db
           /\ strategy_performance' = c.strategy_performance
    /\ held' = None
    /\ last' = LastOp("restart", None, FALSE, "none",
                      IF HasThresholds(load_config(config_file))
                      THEN "none" ELSE "KeyError", <<>>)
    /\ prev' = Snapshot
    /\ UNCHANGED <<config_file, clock, threads>>

Next == RecordNew \/ RecordAgain \/ Restart

Spec == Init /\ [][Next]_vars

----------------------------------------------------------------------------
(* The state machine: two callers of record_prediction on one manager.  The code
   takes no lock, so a caller can be preempted wherever the interpreter may switch
   threads: at the store and file I/O, and between the load and the store of
   performance.total_predictions += 1. *)

Threads == {"t1", "t2"}

ConcurrentInputs(now) == Validated({"A", "B"}, {HitList, MissList}, now)

Idle == [pc |-> "idle", p |-> None, loaded |-> 0]

InitConcurrent ==
    \E cfg \in Configs :
        LET c == Construct(Some(cfg), EmptyStore, 0, cfg)
        IN  /\ manager = c.manager
            /\ config = c.config
            /\ config_file = Some(cfg)
            /\ db = c.db
            /\ strategy_performance = c.strategy_performance
            /\ clock = 0
            /\ held = None
            /\ last = LastOp("init", None, FALSE, "none", "none", <<>>)
            /\ prev = [strategy_performance |-> c.strategy_performance, db |-> c.db,
                       config |-> c.config, config_file |-> Some(cfg), log |-> <<>>]
            /\ threads = [t \in Threads |-> Idle]

\* lines 250-254: the flag is resolved and the outcome row inserted
CallRecordPrediction(t) ==
    /\ threads[t].pc = "idle"
    /\ \E prediction \in ConcurrentInputs(clock) :
        LET p == ResolveOnRecord(prediction)
        IN  /\ db' = save_prediction(db, p)
            /\ threads' = [threads EXCEPT ![t] = [pc |-> "saved", p |-> Some(p),
                                                  loaded |-> 0]]
    /\ UNCHANGED <<manager, config, config_file, strategy_performance, clock, held,
                   last, prev>>

\* lines 263-271: the registry lookup and the load of total_predictions
LoadTotal(t) ==
    /\ threads[t].pc = "saved"
    /\ LET i == IndexOf(strategy_performance, threads[t].p[1].strategy_name)
       IN  threads' = [threads EXCEPT ![t] =
                IF i = 0 THEN [@ EXCEPT !.pc = "done"]
                ELSE [@ EXCEPT !.pc = "loaded",
                               !.loaded = strategy_performance[i].total_predictions]]
    /\ UNCHANGED <<manager, config, config_file, db, strategy_performance, clock, held,
                   last, prev>>

\* lines 271-291: the store of total_predictions and the rest of the statistics
StoreStatistics(t) ==
    /\ threads[t].pc = "loaded"
    /\ LET i == IndexOf(strategy_performance, threads[t].p[1].strategy_name)
       IN  strategy_performance' = [strategy_performance EXCEPT ![i] =
                UpdateStatisticsFrom(@, threads[t].loaded, threads[t].p[1], clock)]
    /\ threads' = [threads EXCEPT ![t].pc = "updated"]
    /\ UNCHANGED <<manager, config, config_file, db, clock, held, last, prev>>

\* line 294: the snapshot of the record as it is now is upserted
PersistSnapshot(t) ==
    /\ threads[t].pc = "updated"
    /\ LET i == IndexOf(strategy_performance, threads[t].p[1].strategy_name)
       IN  db' = update_strategy_performance(db, strategy_performance[i])
    /\ threads' = [threads EXCEPT ![t].pc = "persisted"]
    /\ UNCHANGED <<manager, config, config_file, strategy_performance, clock, held,
                   last, prev>>

\* line 297: the policy is evaluated on the record as it is now
EvaluateAdjustment(t) ==
    /\ threads[t].pc = "persisted"
    /\ LET i == IndexOf(strategy_performance, threads[t].p[1].strategy_name)
           m == evaluate_strategy_adjustment(Snapshot, i, "ok")
       IN  /\ strategy_performance' = m.strategy_performance
           /\ config' = m.config
           /\ config_file' = m.config_file
    /\ threads' = [threads EXCEPT ![t].pc = "done"]
    /\ UNCHANGED <<manager, db, clock, held, last, prev>>

NextConcurrent ==
    \E t \in Threads :
        \/ CallRecordPrediction(t)
        \/ LoadTotal(t)
        \/ StoreStatistics(t)
        \/ PersistSnapshot(t)
        \/ EvaluateAdjustment(t)

SpecConcurrent == InitConcurrent /\ [][NextConcurrent]_vars

\* the registry after the two calls run one after the other from the state m
Serial(m, first, second) ==
    record_prediction(record_prediction(m, first, 0, "none", "ok").m,
                      second, 0, "none", "ok").m.strategy_performance

----------------------------------------------------------------------------
(* The state machine: one strategy over a long run of outcomes *)

MaxRun == 11

\* a configuration document that never reaches the consecutive-failure threshold in a
\* run, with the evaluation_window given
ConfigPatient(window) ==
    ConfigDoc(R(1, 2), R(1, 2), window, 20,
              [factor |-> R(1, 2), min_weight |-> R(1, 20)],
              [factor |-> R(2, 1), max_weight |-> R(2, 5)],
              StrategiesDoc)

RunConfigs == {ConfigPatient(5), ConfigPatient(20)}

RunInputs(now) == Validated({"A"}, {HitList, MissList}, now)

InitRun ==
    \E cfg \in RunConfigs :
        LET c == Construct(Some(cfg), EmptyStore, 0, cfg)
        IN  /\ manager = c.manager
            /\ config = c.config
            /\ config_file = Some(cfg)
            /\ db = c.db
            /\ strategy_performance = c.strategy_performance
            /\ clock = 0
            /\ held = None
            /\ last = LastOp("init", None, FALSE, "none", "none", <<>>)
            /\ prev = [strategy_performance |-> c.strategy_performance, db |-> c.db,
                       config |-> c.config, config_file |-> Some(cfg), log |-> <<>>]
            /\ threads = NoThreads

\* record_prediction, called once for each outcome of the run
RecordOutcome ==
    /\ manager = "up"
    /\ clock < MaxRun
    /\ \E prediction \in RunInputs(clock) :
        LET r == record_prediction(Snapshot, prediction, clock + 1, "none", "ok")
        IN  /\ config' = r.m.config
            /\ config_file' = r.m.config_file
            /\ db' = r.m.db
            /\ strategy_performance' = r.m.strategy_performance
            /\ held' = Some(r.p)
            /\ last' = LastOp("record", Some(prediction), FALSE, "none", r.raised, r.m.log)
    /\ clock' = clock + 1
    /\ prev' = Snapshot
    /\ UNCHANGED <<manager, threads>>

NextRun == RecordOutcome

SpecRun == InitRun /\ [][NextRun]_vars

----------------------------------------------------------------------------
(* The state machine: two strategies over a streak of outcomes, under the
   configuration whose consecutive-failure threshold is 3 *)

MaxStreak == 5

InitStreak ==
    LET c == Construct(Some(ConfigGentle), EmptyStore, 0, ConfigGentle)
    IN  /\ manager = c.manager
        /\ config = c.config
        /\ config_file = Some(ConfigGentle)
        /\ db = c.db
        /\ strategy_performance = c.strategy_performance
        /\ clock = 0
        /\ held = None
        /\ last = LastOp("init", None, FALSE, "none", "none", <<>>)
        /\ prev = [strategy_performance |-> c.strategy_performance, db |-> c.db,
                   config |-> c.config, config_file |-> Some(ConfigGentle),
                   log |-> <<>>]
        /\ threads = NoThreads

\* record_prediction, called once for each outcome of the streak
RecordStreak ==
    /\ manager = "up"
    /\ clock < MaxStreak
    /\ \E prediction \in ConcurrentInputs(clock) :
        LET r == record_prediction(Snapshot, prediction, clock + 1, "none", "ok")
        IN  /\ config' = r.m.config
            /\ config_file' = r.m.config_file
            /\ db' = r.m.db
            /\ strategy_performance' = r.m.strategy_performance
            /\ held' = Some(r.p)
            /\ last' = LastOp("record", Some(prediction), FALSE, "none", r.raised, r.m.log)
    /\ clock' = clock + 1
    /\ prev' = Snapshot
    /\ UNCHANGED <<manager, threads>>

NextStreak == RecordStreak

SpecStreak == InitStreak /\ [][NextStreak]_vars

----------------------------------------------------------------------------
(* The state machine: a caller records a first run of outcomes for each strategy and
   then, while recording further outcomes, asks which strategy is best and whether
   to switch *)

WarmOutcomes == 10
WarmMisses == {4, 5}

\* the same thresholds with an odd evaluation_window
ConfigOddWindow ==
    ConfigDoc(R(1, 2), R(1, 2), 23, 3,
              [factor |-> R(4, 5), min_weight |-> R(1, 20)],
              [factor |-> R(6, 5), max_weight |-> R(1, 2)],
              StrategiesDoc)

SelectConfigs == {ConfigGentle, ConfigOddWindow}

\* some strategy has not yet recorded its first run
Warming ==
    \E i \in DOMAIN strategy_performance :
        strategy_performance[i].total_predictions < WarmOutcomes

\* the actual values of the next outcome of a strategy's first run: its misses come
\* first, then its hits
WarmActuals(perf) ==
    {actual \in {HitList, MissList} :
        IF actual = MissList
        THEN /\ perf.correct_predictions = 0
             /\ \E n \in WarmMisses : perf.total_predictions < n
        ELSE \/ perf.correct_predictions > 0
             \/ perf.total_predictions \in WarmMisses}

LastQuery(op, given, returned) ==
    [op |-> op, given |-> given, again |-> FALSE, fault |-> "none",
     raised |-> "none", log |-> <<>>, returned |-> returned]

InitSelect ==
    \E cfg \in SelectConfigs :
        LET c == Construct(Some(cfg), EmptyStore, 0, cfg)
        IN  /\ manager = c.manager
            /\ config = c.config
            /\ config_file = Some(cfg)
            /\ db = c.db
            /\ strategy_performance = c.strategy_performance
            /\ clock = 0
            /\ held = None
            /\ last = LastOp("init", None, FALSE, "none", "none", <<>>)
            /\ prev = [strategy_performance |-> c.strategy_performance, db |-> c.db,
                       config |-> c.config, config_file |-> Some(cfg), log |-> <<>>]
            /\ threads = NoThreads

\* record_prediction for the next outcome of the first run, one strategy after the
\* other in registry order
WarmUp ==
    /\ manager = "up"
    /\ Warming
    /\ LET i == CHOOSE k \in DOMAIN strategy_performance :
                    /\ strategy_performance[k].total_predictions < WarmOutcomes
                    /\ \A j \in 1..(k - 1) :
                            strategy_performance[j].total_predictions >= WarmOutcomes
       IN  \E prediction \in Validated({strategy_performance[i].strategy_name},
                                       WarmActuals(strategy_performance[i]), 0) :
            LET r == record_prediction(Snapshot, prediction, 0, "none", "ok")
            IN  /\ config' = r.m.config
                /\ config_file' = r.m.config_file
                /\ db' = r.m.db
                /\ strategy_performance' = r.m.strategy_performance
                /\ held' = Some(r.p)
                /\ last' = LastOp("record", Some(prediction), FALSE, "none", r.raised,
                                  r.m.log)
    /\ prev' = Snapshot
    /\ UNCHANGED <<manager, clock, threads>>

\* record_prediction for a further outcome of either strategy
RecordSelect ==
    /\ ~Warming
    /\ \E prediction \in ConcurrentInputs(clock) : Record(prediction, FALSE, "none", "ok")

\* a caller asks for the best performing strategy
BestStrategy ==
    /\ manager = "up"
    /\ last' = LastQuery("get_best_performing_strategy", None,
                         get_best_performing_strategy(strategy_performance, config))
    /\ prev' = Snapshot
    /\ UNCHANGED <<manager, config, config_file, db, strategy_performance, clock, held,
                   threads>>

\* a caller asks whether to leave the strategy it is using
ShouldSwitch ==
    /\ manager = "up"
    /\ \E current_strategy \in {"A", "B", "U"} :
        last' = LastQuery("should_switch_strategy", Some(current_strategy),
                          should_switch_strategy(strategy_performance, config,
                                                 current_strategy))
    /\ prev' = Snapshot
    /\ UNCHANGED <<manager, config, config_file, db, strategy_performance, clock, held,
                   threads>>

NextSelect == WarmUp \/ RecordSelect \/ BestStrategy \/ ShouldSwitch

SpecSelect == InitSelect /\ [][NextSelect]_vars

----------------------------------------------------------------------------
(* The state machine: one strategy is disturbed by incorrect outcomes and then
   records correct outcomes only.  The caller of record_prediction
   (src/python/main.py) runs to completion, so a call that can be made is
   eventually made: weak fairness on the making of a call *)

MaxDisturb == 5        \* calls during which incorrect outcomes may arrive

\* the calls of a run: long enough for the accuracy to pass minimum_accuracy + 0.1
\* after MaxDisturb incorrect outcomes and for the weight to double up to max_weight
RecoverCalls == 3 * MaxDisturb + 4

\* failure threshold 3, decay 1/2 down to 0.05, growth 2 up to 0.4, with the
\* configured weight of strategy A given
ConfigRecover(weight) ==
    ConfigDoc(R(1, 2), R(1, 2), 20, 3,
              [factor |-> R(1, 2), min_weight |-> R(1, 20)],
              [factor |-> R(2, 1), max_weight |-> R(2, 5)],
              << Strategy("s1", "A", TRUE, weight),
                 Strategy("s2", "B", TRUE, R(2, 5)) >>)

RecoverConfigs == {ConfigRecover(R(1, 5)), ConfigRecover(R(0, 1))}

InitRecover ==
    \E cfg \in RecoverConfigs :
        LET c == Construct(Some(cfg), EmptyStore, 0, cfg)
        IN  /\ manager = c.manager
            /\ config = c.config
            /\ config_file = Some(cfg)
            /\ db = c.db
            /\ strategy_performance = c.strategy_performance
            /\ clock = 0
            /\ held = None
            /\ last = LastOp("init", None, FALSE, "none", "none", <<>>)
            /\ prev = [strategy_performance |-> c.strategy_performance, db |-> c.db,
                       config |-> c.config, config_file |-> Some(cfg), log |-> <<>>]
            /\ threads = NoThreads

\* record_prediction for strategy A with the actual values given
RecordActual(actual) ==
    \E prediction \in Validated({"A"}, {actual}, clock) :
        LET r == record_prediction(Snapshot, prediction, clock + 1, "none", "ok")
        IN  /\ config' = r.m.config
            /\ config_file' = r.m.config_file
            /\ db' = r.m.db
            /\ strategy_performance' = r.m.strategy_performance
            /\ held' = Some(r.p)
            /\ last' = LastOp("record", Some(prediction), FALSE, "none", r.raised, r.m.log)
            /\ clock' = clock + 1
            /\ prev' = Snapshot
            /\ UNCHANGED <<manager, threads>>

RecordIncorrect ==
    /\ manager = "up"
    /\ clock < MaxDisturb
    /\ RecordActual(MissList)

RecordCorrect ==
    /\ manager = "up"
    /\ clock < RecoverCalls
    /\ RecordActual(HitList)

NextRecover == RecordIncorrect \/ RecordCorrect

\* the caller makes its next call of record_prediction
CallMade ==
    /\ manager = "up"
    /\ clock < RecoverCalls
    /\ clock' = clock + 1

SpecRecover == InitRecover /\ [][NextRecover]_vars /\ WF_clock(CallMade)

----------------------------------------------------------------------------
(* Reading the history variables *)

PerfOf(registry, name) == registry[IndexOf(registry, name)]

Recorded == last.op = "record"
Given == last.given[1]
GivenName == Given.strategy_name
TrackedBefore == GivenName \in RegistryNames(prev.strategy_performance)
\* the last call reached the policy evaluation and returned
Completed == Recorded /\ last.raised = "none" /\ TrackedBefore
Before == PerfOf(prev.strategy_performance, GivenName)
After == PerfOf(strategy_performance, GivenName)
CountedCorrect ==
    /\ After.correct_predictions = Before.correct_predictions + 1
    /\ After.consecutive_failures = 0
CountedIncorrect ==
    /\ After.correct_predictions = Before.correct_predictions
    /\ After.consecutive_failures = Before.consecutive_failures + 1
Hits(p) == Cardinality(ToSet(p.predicted_numbers) \cap ToSet(p.actual_numbers[1]))

Rules == adjustment_rules(config)
Floor == Rules.performance_below_threshold.min_weight
Ceiling == Rules.performance_above_threshold.max_weight
MinimumAccuracy == Thresholds(config).minimum_accuracy
MaxDrop == Thresholds(config).maximum_weight_drop

----------------------------------------------------------------------------
(* Claims *)

\* C1: for a strategy that starts from a fresh zero-state record, after every
\* recorded outcome correct_predictions <= total_predictions, 0 <= accuracy <= 1,
\* and accuracy = correct_predictions / total_predictions.
C1_AccuracyInvariant ==
    \A i \in DOMAIN strategy_performance :
        LET perf == strategy_performance[i]
        IN  /\ perf.correct_predictions <= perf.total_predictions
            /\ RLe(RZero, perf.accuracy) /\ RLe(perf.accuracy, ROne)
            /\ perf.accuracy[1] * perf.total_predictions
                    = perf.correct_predictions * perf.accuracy[2]

C1_Witness ==
    /\ Completed
    /\ After.total_predictions = 3
    /\ After.correct_predictions = 2

\* C2 (as claimed): from initial weights within [min_weight, max_weight], every
\* strategy's weight is within [min_weight, max_weight] after every policy evaluation.
C2_WeightWithinBounds ==
    \A i \in DOMAIN strategy_performance :
        /\ RLe(Floor, strategy_performance[i].weight)
        /\ RLe(strategy_performance[i].weight, Ceiling)

\* C3 (as claimed): recording one incorrect outcome never lowers the weight by more
\* than the max_weight_drop fraction: after >= before * (1 - max_weight_drop).
C3_DropLimited ==
    (Completed /\ Given.is_correct = Some(FALSE))
        => RLe(RMul(Before.weight, RSub(ROne, MaxDrop)), After.weight)

\* C4: on each recorded outcome the weight changes by exactly one rule, chosen in
\* priority order on the updated statistics: the penalty alone when
\* consecutive_failures >= threshold, else the decay alone when accuracy is below the
\* minimum, else the growth alone when accuracy exceeds the minimum by more than 0.1,
\* else no change.
C4_OneRuleInPriorityOrder ==
    Completed =>
        LET w == Before.weight
            below == Rules.performance_below_threshold
            above == Rules.performance_above_threshold
        IN  After.weight =
                IF After.consecutive_failures >= Rules.consecutive_failures.threshold
                THEN RMul(w, R(1, 10))
                ELSE IF RLt(After.accuracy, MinimumAccuracy)
                THEN RMax(RMax(RMul(w, below.factor), below.min_weight),
                          RMul(w, RSub(ROne, MaxDrop)))
                ELSE IF RLt(RAdd(MinimumAccuracy, R(1, 10)), After.accuracy)
                THEN RMin(RMul(w, above.factor), above.max_weight)
                ELSE w

\* the penalty preempts: it fires while accuracy is at or above the minimum
C4_Witness ==
    /\ Completed
    /\ After.consecutive_failures >= Rules.consecutive_failures.threshold
    /\ RLe(MinimumAccuracy, After.accuracy)
    /\ After.weight = RMul(Before.weight, R(1, 10))

\* C5 (as claimed): passing the same outcome object to record_prediction a second
\* time leaves total_predictions, correct_predictions, consecutive_failures and the
\* trend window as the first call left them.
C5_SecondRecordChangesNothing ==
    (Recorded /\ last.again /\ TrackedBefore) =>
        /\ After.total_predictions = Before.total_predictions
        /\ After.correct_predictions = Before.correct_predictions
        /\ After.consecutive_failures = Before.consecutive_failures
        /\ After.recent_accuracy_trend = Before.recent_accuracy_trend

\* C6 (as claimed): an outcome that carries actual values and whose flag is unset is
\* counted as correct exactly when at least 3 predicted values are among the actual
\* values, and as incorrect otherwise.
C6_ResolvedBeforeCounting ==
    (Completed /\ Given.actual_numbers # None /\ Given.is_correct = None) =>
        IF Hits(Given) >= 3 THEN CountedCorrect ELSE CountedIncorrect

\* C7 (as claimed): after every successful record_prediction for a tracked strategy
\* the stored snapshot equals the in-memory record in every field, weight included.
C7_StoreEqualsMemory ==
    Completed => get_strategy_performance(db, GivenName) = Some(After)

\* C8: after a restart, current weights report for every enabled strategy with a
\* stored snapshot exactly the stored weight, whatever the configuration says.
C8_RestartRestoresStoredWeight ==
    (last.op = "restart" /\ manager = "up") =>
        \A k \in DOMAIN config.prediction_strategies :
            LET sc == config.prediction_strategies[k]
            IN  \A row \in db.strategy_performance :
                    (sc.enabled /\ row.strategy_name = sc.name) =>
                        /\ sc.name \in DOMAIN get_current_strategy_weights(strategy_performance)
                        /\ get_current_strategy_weights(strategy_performance)[sc.name]
                                = row.weight

\* a restart over a stored weight that differs from the configured one
C8_Witness ==
    /\ last.op = "restart" /\ manager = "up"
    /\ \E k \in DOMAIN config.prediction_strategies :
        \E row \in db.strategy_performance :
            /\ config.prediction_strategies[k].enabled
            /\ row.strategy_name = config.prediction_strategies[k].name
            /\ row.weight # config.prediction_strategies[k].weight
            /\ row.total_predictions >= 2

\* C9: a call for a strategy without a registry entry still appends the outcome row,
\* changes no performance record, weight, snapshot or configuration value, adds no
\* registry entry, and ends with the unknown-strategy warning, nothing raised.
C9_UnknownStrategy ==
    (Recorded /\ last.fault = "none" /\ ~TrackedBefore) =>
        /\ Len(db.predictions) = Len(prev.db.predictions) + 1
        /\ SubSeq(db.predictions, 1, Len(prev.db.predictions)) = prev.db.predictions
        /\ db.predictions[Len(db.predictions)].strategy_name = GivenName
        /\ db.strategy_performance = prev.db.strategy_performance
        /\ strategy_performance = prev.strategy_performance
        /\ config = prev.config
        /\ config_file = prev.config_file
        /\ manager = "up"
        /\ last.raised = "none"
        /\ "warning: unknown strategy" \in ToSet(last.log)

C9_Witness ==
    /\ Recorded /\ last.fault = "none" /\ ~TrackedBefore
    /\ Len(db.predictions) = 3
    /\ db.strategy_performance # {}

\* C10 (as claimed): when two callers concurrently record one outcome each for the
\* same strategy, the final state is that of one of the two serial orders of the
\* calls (total_predictions grows by 2; no increment, trend entry or weight
\* adjustment is lost).
C10_SerializablePerStrategy ==
    (/\ threads # NoThreads
     /\ \A t \in Threads : threads[t].pc = "done"
     /\ threads["t1"].p[1].strategy_name = threads["t2"].p[1].strategy_name)
        => \/ strategy_performance
                = Serial(prev, threads["t1"].p[1], threads["t2"].p[1])
           \/ strategy_performance
                = Serial(prev, threads["t2"].p[1], threads["t1"].p[1])

----------------------------------------------------------------------------
(* Claims on choosing a strategy *)

AnsweredBest == last.op = "get_best_performing_strategy"
AnsweredSwitch == last.op = "should_switch_strategy"
Window == evaluation_window(config)

\* the first strategy in registry order that no strategy of Q exceeds in accuracy
FirstBestOf(Q) ==
    IF Q = {}
    THEN None
    ELSE Some(strategy_performance[
            CHOOSE i \in Q :
                \A j \in Q :
                    /\ ~RLt(strategy_performance[i].accuracy,
                            strategy_performance[j].accuracy)
                    /\ j < i => RLt(strategy_performance[j].accuracy,
                                    strategy_performance[i].accuracy)].strategy_name)

QualifiedByFloorHalf ==
    {i \in DOMAIN strategy_performance :
        /\ strategy_performance[i].total_predictions >= 10
        /\ strategy_performance[i].total_predictions >= Window \div 2}

QualifiedByExactHalf ==
    {i \in DOMAIN strategy_performance :
        /\ strategy_performance[i].total_predictions >= 10
        /\ 2 * strategy_performance[i].total_predictions >= Window}

\* C11 (as stated): the best strategy is chosen among the strategies with at least
\* max(10, evaluation_window / 2) predictions, the half taken exactly
C11_ExactHalfFloor ==
    AnsweredBest => last.returned = FirstBestOf(QualifiedByExactHalf)

\* C11 (amended): the best strategy is chosen among the strategies with at least
\* max(10, evaluation_window div 2) predictions, the half rounded down; the answer is
\* absent when there is none, otherwise the first in registry order of those of
\* maximal accuracy
C11_FloorHalfFloor ==
    AnsweredBest => last.returned = FirstBestOf(QualifiedByFloorHalf)

\* two strategies pass an odd window's floor with equal accuracy, the first is returned
C11_Witness ==
    /\ AnsweredBest
    /\ Window % 2 = 1
    /\ Cardinality(QualifiedByFloorHalf) = 2
    /\ \A i, j \in QualifiedByFloorHalf :
            strategy_performance[i].accuracy = strategy_performance[j].accuracy
    /\ last.returned = Some(strategy_performance[1].strategy_name)

Asked == last.given[1]
BestNow == FirstBestOf(QualifiedByFloorHalf)
BeatsByMargin(current) ==
    /\ BestNow # None
    /\ BestNow # Some(current)
    /\ RLt(RAdd(PerfOf(strategy_performance, current).accuracy, R(1, 20)),
           PerfOf(strategy_performance, BestNow[1]).accuracy)

\* C12: should_switch(current) answers true exactly when current is not in the
\* registry, or its accuracy is below the minimum accuracy, or the best strategy is
\* another one whose accuracy exceeds current's by more than 0.05
C12_SwitchExactlyWhen ==
    AnsweredSwitch =>
        (last.returned <=>
            \/ Asked \notin RegistryNames(strategy_performance)
            \/ RLt(PerfOf(strategy_performance, Asked).accuracy, MinimumAccuracy)
            \/ BeatsByMargin(Asked))

\* a known strategy of acceptable accuracy is left only because the best one beats it
\* by more than the margin
C12_Witness ==
    /\ AnsweredSwitch
    /\ last.returned
    /\ Asked \in RegistryNames(strategy_performance)
    /\ ~RLt(PerfOf(strategy_performance, Asked).accuracy, MinimumAccuracy)
    /\ BeatsByMargin(Asked)

\* a known strategy of acceptable accuracy is kept although the best one is better,
\* by no more than the margin
C12_WitnessKept ==
    /\ AnsweredSwitch
    /\ ~last.returned
    /\ BestNow # None /\ BestNow # Some(Asked)
    /\ RLt(PerfOf(strategy_performance, Asked).accuracy,
           PerfOf(strategy_performance, BestNow[1]).accuracy)

----------------------------------------------------------------------------
(* Claims on a long run of outcomes *)

TrendOf(perf) == perf.recent_accuracy_trend
LastFlag == IF Truthy(Given.is_correct) THEN 1 ELSE 0

\* C13 (as stated): after every recorded outcome a strategy's trend window is no
\* longer than the configured evaluation_window, whatever size is configured
C13_TrendWithinEvaluationWindow ==
    \A i \in DOMAIN strategy_performance :
        Len(TrendOf(strategy_performance[i])) <= evaluation_window(config)

\* C13 (amended): after every recorded outcome a strategy's trend window is no longer
\* than 10 entries, whatever evaluation_window is configured; the outcome is appended,
\* and when that would make 11 entries the oldest one is dropped
C13_TrendWithinTen ==
    /\ \A i \in DOMAIN strategy_performance :
            Len(TrendOf(strategy_performance[i])) <= 10
    /\ Completed =>
            TrendOf(After) =
                IF Len(TrendOf(Before)) < 10
                THEN Append(TrendOf(Before), LastFlag)
                ELSE Append(Tail(TrendOf(Before)), LastFlag)

\* the eleventh outcome of a strategy pushes its first outcome out of the window
C13_Witness ==
    /\ Completed
    /\ Len(TrendOf(Before)) = 10
    /\ Len(TrendOf(After)) = 10
    /\ After.total_predictions = 11
    /\ evaluation_window(config) < 10

----------------------------------------------------------------------------
(* Claims on failures of the store and of the configuration file *)

StoreFailed ==
    \/ last.fault = "save"
    \/ last.fault = "upsert" /\ TrackedBefore

\* C14: when the store fails during record_prediction, on the insert of the outcome
\* or on the upsert of the snapshot, the call ends in the store's error; a call that
\* returns normally has stored the outcome and, for a tracked strategy, the snapshot
C14_StorageFailureSurfaced ==
    Recorded =>
        /\ StoreFailed <=> last.raised = "sqlite3.Error"
        /\ last.raised = "none" =>
            /\ Len(db.predictions) = Len(prev.db.predictions) + 1
            /\ TrackedBefore =>
                /\ get_strategy_performance(db, GivenName) # None
                /\ get_strategy_performance(db, GivenName)[1].total_predictions
                        = After.total_predictions

\* the outcome row is stored, the upsert fails, and the caller gets the error
C14_Witness ==
    /\ Recorded
    /\ last.fault = "upsert"
    /\ last.raised = "sqlite3.Error"
    /\ Len(db.predictions) = Len(prev.db.predictions) + 1

ConfigSaveFailed == Recorded /\ "error: config save failed" \in ToSet(last.log)

\* the weight the live configuration holds for the strategy of that name
ConfiguredWeight(name) ==
    LET strategies == config.prediction_strategies
    IN  strategies[CHOOSE k \in DOMAIN strategies : strategies[k].name = name].weight

\* the weight the rule that fires on the updated statistics gives
RuleWeight ==
    LET w == Before.weight
        below == Rules.performance_below_threshold
        above == Rules.performance_above_threshold
    IN  IF After.consecutive_failures >= Rules.consecutive_failures.threshold
        THEN RMul(w, R(1, 10))
        ELSE IF RLt(After.accuracy, MinimumAccuracy)
        THEN RMax(RMax(RMul(w, below.factor), below.min_weight),
                  RMul(w, RSub(ROne, MaxDrop)))
        ELSE RMin(RMul(w, above.factor), above.max_weight)

\* C15: when the configuration file cannot be written while a new weight is mirrored,
\* record_prediction still returns normally, and the new weight is in the performance
\* record and in the live configuration
C15_ConfigWriteFailureTolerated ==
    ConfigSaveFailed =>
        /\ last.raised = "none"
        /\ "info: prediction recorded" \in ToSet(last.log)
        /\ After.weight = RuleWeight
        /\ ConfiguredWeight(GivenName) = RuleWeight

\* the write fails while a changed weight is mirrored; the file does not get it
C15_Witness ==
    /\ ConfigSaveFailed
    /\ last.raised = "none"
    /\ After.weight # Before.weight
    /\ ConfiguredWeight(GivenName) = After.weight
    /\ config_file # Some(config)

ConstructedLast == last.op \in {"init", "restart"}

NoThresholdsInFile ==
    /\ config_file # None
    /\ \/ "adaptive_mechanism" \notin DOMAIN config_file[1]
       \/ "performance_thresholds" \notin DOMAIN config_file[1].adaptive_mechanism

\* C16: a construction that finds the configuration file absent or not parseable, or
\* without the thresholds, ends in an error and produces no manager; no outcome is
\* recorded until a construction succeeds
C16_BadConfigurationIsFatal ==
    /\ (ConstructedLast /\ (config_file = None \/ NoThresholdsInFile)) =>
            /\ manager = "failed"
            /\ last.raised = "KeyError"
            /\ strategy_performance = <<>>
    /\ manager = "failed" => ConstructedLast

\* the file read at the first start has strategies but no thresholds
C16_WitnessNoThresholds ==
    /\ last.op = "init"
    /\ NoThresholdsInFile
    /\ manager = "failed"

\* the file a failed write truncated is read at a restart
C16_Witness ==
    /\ last.op = "restart"
    /\ config_file = None
    /\ manager = "failed"
    /\ db.predictions # <<>>

----------------------------------------------------------------------------
(* Claims on streaks and scenarios *)

PenaltyFired == "warning: consecutive failures" \in ToSet(last.log)

\* the strategy of the last call has recorded nothing but incorrect outcomes
OnlyFailuresSoFar ==
    /\ Completed
    /\ After.correct_predictions = 0
    /\ After.consecutive_failures = After.total_predictions

\* C17: over 5 consecutive incorrect outcomes of a strategy, with a failure threshold
\* of 3, the consecutive-failure penalty fires on the 3rd outcome and on no other, so
\* the weight is multiplied by 0.1 exactly once
C17_PenaltyOnceInFive ==
    (OnlyFailuresSoFar /\ Rules.consecutive_failures.threshold = 3
        /\ After.total_predictions <= 5) =>
        /\ PenaltyFired <=> After.total_predictions = 3
        /\ After.weight = RMul(Before.weight, R(1, 10)) <=> After.total_predictions = 3

ScenarioA == PerfOf(strategy_performance, "A")

\* C18: a strategy that starts at weight 0.2 under a minimum accuracy of 0.5 and has
\* recorded 10 outcomes, 3 of them correct, in any order, holds the weight of one
\* decay step from 0.2: max(max(0.2 * factor, min_weight), 0.2 * (1 - max_weight_drop))
C18_ScenarioADecaysOnce ==
    (/\ manager = "up"
     /\ MinimumAccuracy = R(1, 2)
     /\ ScenarioA.total_predictions = 10
     /\ ScenarioA.correct_predictions = 3) =>
        ScenarioA.weight =
            RMax(RMax(RMul(R(1, 5), Rules.performance_below_threshold.factor),
                      Rules.performance_below_threshold.min_weight),
                 RMul(R(1, 5), RSub(ROne, MaxDrop)))

----------------------------------------------------------------------------
(* Claims on the two tables of the store *)

IsPrefix(s, t) == Len(s) <= Len(t) /\ SubSeq(t, 1, Len(s)) = s

Upserted == Recorded /\ TrackedBefore /\ last.fault = "none"

\* C19: the rows of the predictions table are only ever appended to: a save adds one
\* row after the rows already there, no operation changes or removes a row, and a
\* construction over an existing store leaves the rows of both tables as they were
C19_OutcomesAppendOnly ==
    /\ IsPrefix(prev.db.predictions, db.predictions)
    /\ Recorded =>
            Len(db.predictions) =
                Len(prev.db.predictions) + (IF last.fault = "save" THEN 0 ELSE 1)
    /\ last.op = "restart" =>
            /\ db.predictions = prev.db.predictions
            /\ db.strategy_performance = prev.db.strategy_performance

\* a manager is constructed over a store that holds rows in both tables
C19_Witness ==
    /\ last.op = "restart"
    /\ Len(db.predictions) >= 2
    /\ db.strategy_performance # {}

\* C20: the strategy_performance table holds at most one row per strategy name; a load
\* returns, field by field, the snapshot of the most recent upsert for the name, and
\* nothing for a name that was never upserted
C20_LoadReturnsLastUpsert ==
    /\ \A r1, r2 \in db.strategy_performance :
            r1.strategy_name = r2.strategy_name => r1 = r2
    /\ Upserted =>
            get_strategy_performance(db, GivenName)
                = Some([After EXCEPT !.weight = Before.weight])
    /\ \A name \in {"A", "B", "D", "U"} :
            \/ /\ name \in {"A", "B"}
               /\ \E k \in DOMAIN db.predictions : db.predictions[k].strategy_name = name
            \/ get_strategy_performance(db, name) = None
    /\ \A name \in {"A", "B", "D", "U"} :
            (Upserted /\ name = GivenName)
                \/ get_strategy_performance(db, name)
                        = get_strategy_performance(prev.db, name)

\* a second upsert for a strategy replaces its row, and the load returns the new one
C20_Witness ==
    /\ Upserted
    /\ get_strategy_performance(prev.db, GivenName) # None
    /\ get_strategy_performance(db, GivenName) # get_strategy_performance(prev.db, GivenName)
    /\ get_strategy_performance(db, GivenName)[1].recent_accuracy_trend = <<0, 1>>
    /\ Cardinality(db.strategy_performance) = 2

----------------------------------------------------------------------------
(* Claims on what a recorded outcome changes *)

RuleLines ==
    {"info: weight lowered temporarily", "info: below threshold, weight adjusted",
     "info: above threshold, weight raised"}

\* the last call ran one of the three weight handlers
RuleFired == Completed /\ RuleLines \cap ToSet(last.log) # {}

\* C21: a record_prediction call changes nothing in the live configuration but the
\* weight of the recorded strategy's entry: thresholds, rules, keys, names, enabled
\* flags and the other entries' weights stay, and when a rule fired the entry's
\* weight is the strategy's new in-memory weight
C21_OnlyWeightWrittenBack ==
    Recorded =>
        /\ DOMAIN config = DOMAIN prev.config
        /\ config.adaptive_mechanism = prev.config.adaptive_mechanism
        /\ DOMAIN config.prediction_strategies = DOMAIN prev.config.prediction_strategies
        /\ \A k \in DOMAIN config.prediction_strategies :
                LET new == config.prediction_strategies[k]
                    old == prev.config.prediction_strategies[k]
                IN  /\ new.key = old.key
                    /\ new.name = old.name
                    /\ new.enabled = old.enabled
                    /\ new.name # GivenName => new.weight = old.weight
        /\ ~RuleFired => config = prev.config
        /\ RuleFired => ConfiguredWeight(GivenName) = After.weight

\* a rule fires and the configuration gets the new weight of that strategy
C21_Witness ==
    /\ RuleFired
    /\ config # prev.config
    /\ ConfiguredWeight(GivenName) = After.weight
    /\ After.weight # Before.weight

----------------------------------------------------------------------------
(* Claims on the weight rules *)

DecayFired == Completed /\ "info: below threshold, weight adjusted" \in ToSet(last.log)

\* max(max(w * decay_factor, min_weight), w * (1 - max_weight_drop))
DecayedOnce(w, factor, floor, drop) ==
    LET decayed == IF RLt(RMul(w, factor), floor) THEN floor ELSE RMul(w, factor)
        limit == RMul(w, RSub(ROne, drop))
    IN  IF RLt(decayed, limit) THEN limit ELSE decayed

\* C22: whenever the below-minimum rule fires on a strategy of weight w, its new
\* weight is max(max(w * decay_factor, min_weight), w * (1 - max_weight_drop)); on
\* w = 1, decay_factor = 0.1, max_weight_drop = 0.5 and min_weight = 0.05 that is 0.5
C22_DecayClampedByDropLimit ==
    /\ DecayFired =>
            After.weight = DecayedOnce(Before.weight,
                                       Rules.performance_below_threshold.factor,
                                       Floor, MaxDrop)
    /\ LowPerformanceWeight(ROne, [factor |-> R(1, 10), min_weight |-> R(1, 20)],
                            R(1, 2)) = R(1, 2)

\* the drop limit decides: the floored decay would fall below w * (1 - max_weight_drop)
C22_Witness ==
    /\ DecayFired
    /\ After.weight = RMul(Before.weight, RSub(ROne, MaxDrop))
    /\ RLt(RMul(Before.weight, Rules.performance_below_threshold.factor), After.weight)
    /\ RLt(Floor, After.weight)

----------------------------------------------------------------------------
(* Claims on the registry *)

EnabledInConfig == SelectSeq(config.prediction_strategies, LAMBDA sc : sc.enabled)

\* C23: after a construction the registry holds one record for each strategy the
\* configuration declares enabled and none for the others; a strategy without a
\* stored snapshot gets a zero record with its configured weight, a strategy with a
\* stored snapshot gets that snapshot
C23_RegistryFromConfigAndStore ==
    (ConstructedLast /\ manager = "up") =>
        /\ Len(strategy_performance) = Len(EnabledInConfig)
        /\ \A k \in DOMAIN EnabledInConfig :
                LET perf == strategy_performance[k]
                    stored == get_strategy_performance(db, EnabledInConfig[k].name)
                IN  /\ perf.strategy_name = EnabledInConfig[k].name
                    /\ stored # None => perf = stored[1]
                    /\ stored = None =>
                        /\ perf.total_predictions = 0
                        /\ perf.correct_predictions = 0
                        /\ perf.accuracy = RZero
                        /\ perf.average_confidence = RZero
                        /\ perf.consecutive_failures = 0
                        /\ perf.recent_accuracy_trend = <<>>
                        /\ perf.weight = EnabledInConfig[k].weight

\* a restart finds a snapshot for one enabled strategy and none for another, while
\* the configuration declares a disabled strategy too
C23_Witness ==
    /\ last.op = "restart"
    /\ manager = "up"
    /\ Len(EnabledInConfig) < Len(config.prediction_strategies)
    /\ \E k \in DOMAIN strategy_performance :
            strategy_performance[k].total_predictions >= 2
    /\ \E k \in DOMAIN strategy_performance :
            get_strategy_performance(db, strategy_performance[k].strategy_name) = None

\* the stored outcome rows of a strategy, oldest first
RowsOf(name) == SelectSeq(db.predictions, LAMBDA row : row.strategy_name = name)

\* the number of rows after the last one that was stored as correct
RECURSIVE TrailingMisses(_)
TrailingMisses(rows) ==
    IF rows = <<>> THEN 0
    ELSE IF rows[Len(rows)].is_correct = Some(1) THEN 0
    ELSE 1 + TrailingMisses(SubSeq(rows, 1, Len(rows) - 1))

\* C24: for a strategy that started from a fresh record, consecutive_failures is the
\* number of outcomes recorded since its most recent correct one: 0 right after a
\* correct outcome, one more after each incorrect one, and never more than
\* total_predictions - correct_predictions
C24_ConsecutiveFailuresCount ==
    /\ \A i \in DOMAIN strategy_performance :
            LET perf == strategy_performance[i]
            IN  /\ perf.consecutive_failures = TrailingMisses(RowsOf(perf.strategy_name))
                /\ perf.consecutive_failures
                        <= perf.total_predictions - perf.correct_predictions
    /\ Completed =>
            After.consecutive_failures =
                IF Truthy(Given.is_correct) THEN 0 ELSE Before.consecutive_failures + 1

\* a correct outcome ends a streak of incorrect ones, after earlier correct outcomes
C24_Witness ==
    /\ Completed
    /\ Truthy(Given.is_correct)
    /\ Before.consecutive_failures >= 4
    /\ Before.correct_predictions >= 2
    /\ After.consecutive_failures = 0

----------------------------------------------------------------------------
(* Claims on unresolved outcomes and on failed calls *)

Unresolved == Given.actual_numbers = None /\ Given.is_correct = None

\* the weight the policy leaves on the updated statistics: the first rule that
\* applies, or the weight as it was
PolicyWeight ==
    IF \/ After.consecutive_failures >= Rules.consecutive_failures.threshold
       \/ RLt(After.accuracy, MinimumAccuracy)
       \/ RLt(RAdd(MinimumAccuracy, R(1, 10)), After.accuracy)
    THEN RuleWeight
    ELSE Before.weight

\* C25: an outcome recorded without actual values and with its flag unset is counted
\* as an incorrect one: total_predictions and consecutive_failures grow by one,
\* correct_predictions stays, 0 is appended to the trend window, and the policy is
\* evaluated on the result
C25_UnresolvedCountsAsIncorrect ==
    (Completed /\ Unresolved) =>
        /\ After.total_predictions = Before.total_predictions + 1
        /\ After.correct_predictions = Before.correct_predictions
        /\ After.consecutive_failures = Before.consecutive_failures + 1
        /\ After.accuracy = R(After.correct_predictions, After.total_predictions)
        /\ After.recent_accuracy_trend =
                IF Len(Before.recent_accuracy_trend) < 10
                THEN Append(Before.recent_accuracy_trend, 0)
                ELSE Append(Tail(Before.recent_accuracy_trend), 0)
        /\ After.weight = PolicyWeight

\* unresolved outcomes alone bring the consecutive-failure penalty
C25_Witness ==
    /\ Completed
    /\ Unresolved
    /\ PenaltyFired
    /\ After.weight = RMul(Before.weight, R(1, 10))
    /\ \A k \in DOMAIN db.predictions : db.predictions[k].is_correct = None

\* C26: when the below-minimum rule fires, the weight after it is no greater than the
\* weight before it, also in states reached after the consecutive-failure penalty
C26_DecayNeverRaises ==
    DecayFired => RLe(After.weight, Before.weight)

\* C27: a call that ends in an error of the store leaves the in-memory record of the
\* strategy (counters, accuracy, trend window, consecutive_failures, weight) as it
\* was before the call
C27_FailedCallLeavesRecord ==
    (Recorded /\ last.raised = "sqlite3.Error" /\ TrackedBefore) => After = Before

ConfiguredWeightIn(cfg, name) ==
    LET strategies == cfg.prediction_strategies
    IN  strategies[CHOOSE k \in DOMAIN strategies : strategies[k].name = name].weight

\* C28: a record_prediction call for strategy S changes nothing of any other
\* strategy T: T's in-memory record, T's stored snapshot and T's configured weight
\* are as before, and the registry holds the same strategies in the same order
C28_OtherStrategiesUntouched ==
    Recorded =>
        /\ Len(strategy_performance) = Len(prev.strategy_performance)
        /\ \A i \in DOMAIN strategy_performance :
                /\ strategy_performance[i].strategy_name
                        = prev.strategy_performance[i].strategy_name
                /\ strategy_performance[i].strategy_name # GivenName =>
                        strategy_performance[i] = prev.strategy_performance[i]
        /\ \A T \in {"A", "B", "D", "U"} \ {GivenName} :
                get_strategy_performance(db, T) = get_strategy_performance(prev.db, T)
        /\ \A T \in {"A", "B", "D"} \ {GivenName} :
                ConfiguredWeightIn(config, T) = ConfiguredWeightIn(prev.config, T)

\* a call changes the weight of its own strategy while another strategy holds a
\* record with outcomes and a stored snapshot
C28_Witness ==
    /\ RuleFired
    /\ After.weight # Before.weight
    /\ \E i \in DOMAIN strategy_performance :
            /\ strategy_performance[i].strategy_name # GivenName
            /\ strategy_performance[i].total_predictions >= 1
            /\ get_strategy_performance(db, strategy_performance[i].strategy_name) # None

\* C29: starting from an empty store, every tracked strategy has as many stored
\* outcome rows as its in-memory total_predictions
C29_RowsEqualTotal ==
    manager = "up" =>
        \A i \in DOMAIN strategy_performance :
            Len(RowsOf(strategy_performance[i].strategy_name))
                = strategy_performance[i].total_predictions

----------------------------------------------------------------------------
(* Claims on recovery *)

\* strategy A has an accuracy above minimum_accuracy + 0.1 and the weight max_weight
AtCeiling ==
    LET perf == PerfOf(strategy_performance, "A")
    IN  /\ RLt(RAdd(MinimumAccuracy, BonusMargin), perf.accuracy)
        /\ perf.weight = Ceiling

====
